---------------------------- MODULE Spec2Model ----------------------------
(***************************************************************************)
(* Model of Buteo::SyncLog (libbuteosyncfw/profile/SyncLog.cpp): a bounded *)
(* history of sync results per profile, the cached last successful result, *)
(* and the conversion of both to and from an XML element.                  *)
(*                                                                         *)
(* SyncResults objects live on a heap and the log holds pointers to them,  *)
(* as in the C++ code, so that ownership and deep copies are visible.      *)
(***************************************************************************)
EXTENDS Integers, Sequences, FiniteSets, TLC

VARIABLES
    heap,       \* address -> SyncResults value, for every live SyncResults object
    logs,       \* log name -> SyncLogPrivate record, or NoLog before construction
    recorded,   \* history: log name -> sequence of the values passed to addResults
    docs,       \* document name -> QDomElement produced by toXml, or NoDoc
    pc,         \* position of the client program
    steps,      \* number of calls the client has made in its current phase
    ret         \* what the client's last call of an accessor returned, or NoValue

vars == <<heap, logs, recorded, docs, pc, steps, ret>>

---------------------------------------------------------------------------
(* Bounds of the model *)

\* Largest sync time the clients pass; time 0 is the null QDateTime.
MaxTime == 2

\* Number of addResults calls the recording client makes.
MaxAdds == 6

\* Number of calls the copying client makes after it has copied the log.
MaxAfterCopy == 2

\* Number of child elements of the documents the replaying client reads.
MaxChildren == 6

---------------------------------------------------------------------------
(* SyncResults: the collaborator type (SyncResults.h is outside this file) *)

SYNC_RESULT_SUCCESS == "SYNC_RESULT_SUCCESS"
SYNC_RESULT_FAILED == "SYNC_RESULT_FAILED"
NO_ERROR == "NO_ERROR"
INTERNAL_ERROR == "INTERNAL_ERROR"

\* The null QDateTime.
NullTime == 0

TAG_SYNC_LOG == "synclog"
TAG_SYNC_RESULTS == "syncresults"

SyncResults(aMajor, aMinor, aTime) ==
    [majorCode |-> aMajor, minorCode |-> aMinor, syncTime |-> aTime]

\* SyncResults::operator< : results are ordered by sync time; the null time
\* is before every set time.
ResultLess(aLhs, aRhs) == aLhs.syncTime < aRhs.syncTime

\* The time attribute is text: empty for the null time.
TimeToString(aTime) == IF aTime = NullTime THEN <<>> ELSE <<aTime>>

TimeFromString(aText) == IF aText = <<>> THEN NullTime ELSE aText[1]

\* SyncResults::toXml : an element tagged "syncresults" carrying the fields
\* as attributes.
SyncResults_toXml(aResults) ==
    [tag |-> TAG_SYNC_RESULTS,
     time |-> TimeToString(aResults.syncTime),
     majorcode |-> aResults.majorCode,
     minorcode |-> aResults.minorCode]

\* SyncResults::SyncResults(const QDomElement &)
SyncResults_fromXml(aNode) ==
    SyncResults(aNode.majorcode, aNode.minorcode, TimeFromString(aNode.time))

\* The values the clients pass to addResults: a result with codes
\* SUCCESS/NO_ERROR at every time (the null time included), and at the
\* latest time one result with a failing major code and one with a failing
\* minor code.
Inputs ==
    { SyncResults(SYNC_RESULT_SUCCESS, NO_ERROR, t) : t \in 0..MaxTime }
    \cup { SyncResults(SYNC_RESULT_FAILED, NO_ERROR, MaxTime),
           SyncResults(SYNC_RESULT_SUCCESS, INTERNAL_ERROR, MaxTime) }

ProfileNames == {"p", "q"}

\* The values the copying client passes: the earliest and the latest
\* successful result and a failed one.
CopyInputs ==
    { SyncResults(SYNC_RESULT_SUCCESS, NO_ERROR, 1),
      SyncResults(SYNC_RESULT_SUCCESS, NO_ERROR, MaxTime),
      SyncResults(SYNC_RESULT_FAILED, NO_ERROR, MaxTime) }

\* A child element that is no sync results element.
OtherNode == [tag |-> "other"]

\* The values the inspecting client passes: those of the copying client and
\* a result with codes SUCCESS/NO_ERROR and the null time.
InspectInputs ==
    CopyInputs \cup { SyncResults(SYNC_RESULT_SUCCESS, NO_ERROR, NullTime) }

\* The values the owning client passes: the earliest and the latest
\* successful result.
OwnInputs ==
    { SyncResults(SYNC_RESULT_SUCCESS, NO_ERROR, 1),
      SyncResults(SYNC_RESULT_SUCCESS, NO_ERROR, MaxTime) }

\* The child elements of the documents the replaying client reads.
DocNodes == { SyncResults_toXml(r) : r \in CopyInputs } \cup { OtherNode }

---------------------------------------------------------------------------
(* The heap of SyncResults objects *)

\* The null pointer.
NULL == 0

EmptyHeap == [a \in {} |-> NULL]

\* new SyncResults(v): the lowest free address is handed out.
NewAddr(h) ==
    CHOOSE a \in 1..(Cardinality(DOMAIN h) + 1) :
        /\ a \notin DOMAIN h
        /\ \A b \in 1..(a - 1) : b \in DOMAIN h

New(h, v) == (NewAddr(h) :> v) @@ h

\* *p for a pointer the log holds.  The code never reads a deleted object;
\* a read of one is shown as the value Dangling so that it equals no result.
Dangling == [majorCode |-> "?", minorCode |-> "?", syncTime |-> -1]

\* delete p: deleting the null pointer does nothing.  The code never deletes
\* an object that is not live; a delete of one leaves a mark at the null
\* address, which no object ever has, so that it shows.
Delete(h, p) ==
    IF p = NULL THEN h
    ELSE IF p \notin DOMAIN h THEN (NULL :> Dangling) @@ h
    ELSE [a \in (DOMAIN h) \ {p} |-> h[a]]

Deref(h, p) == IF p \in DOMAIN h THEN h[p] ELSE Dangling

---------------------------------------------------------------------------
(* SyncLogPrivate and SyncLog *)

MAXLOGENTRIES == 5

NoLog == [absent |-> TRUE]

NoDoc == [absent |-> TRUE]

NoValue == [absent |-> TRUE]

\* isSyncSuccessful without the test of the sync time.
isSyncSuccessfulAnyTime(aResults) ==
    /\ aResults.majorCode = SYNC_RESULT_SUCCESS
    /\ aResults.minorCode = NO_ERROR

isSyncSuccessful(aResults) ==
    /\ aResults.majorCode = SYNC_RESULT_SUCCESS
    /\ aResults.minorCode = NO_ERROR
    /\ aResults.syncTime # NullTime

\* SyncLogPrivate::SyncLogPrivate()
SyncLogPrivate_new ==
    [iProfileName |-> "", iResults |-> <<>>, iLastSuccessfulResults |-> NULL]

\* A world is a heap together with one log's private data: what a member
\* function of the log reads and writes.
World(h, d) == [heap |-> h, d |-> d]

\* updateLastSuccessfulResults without the comparison with the stored result.
updateLastSuccessfulResultsAlways(w, aResults) ==
    IF isSyncSuccessful(aResults)
    THEN LET h1 == Delete(w.heap, w.d.iLastSuccessfulResults)
         IN  World(New(h1, aResults),
                   [w.d EXCEPT !.iLastSuccessfulResults = NewAddr(h1)])
    ELSE w

\* updateLastSuccessfulResults without the test of isSyncSuccessful.
updateLastSuccessfulResultsAny(w, aResults) ==
    IF \/ w.d.iLastSuccessfulResults = NULL
       \/ ResultLess(Deref(w.heap, w.d.iLastSuccessfulResults), aResults)
    THEN LET h1 == Delete(w.heap, w.d.iLastSuccessfulResults)
         IN  World(New(h1, aResults),
                   [w.d EXCEPT !.iLastSuccessfulResults = NewAddr(h1)])
    ELSE w

\* updateLastSuccessfulResults with the comparison the other way round.
updateLastSuccessfulResultsOlder(w, aResults) ==
    IF /\ isSyncSuccessful(aResults)
       /\ \/ w.d.iLastSuccessfulResults = NULL
          \/ ResultLess(aResults, Deref(w.heap, w.d.iLastSuccessfulResults))
    THEN LET h1 == Delete(w.heap, w.d.iLastSuccessfulResults)
         IN  World(New(h1, aResults),
                   [w.d EXCEPT !.iLastSuccessfulResults = NewAddr(h1)])
    ELSE w

\* updateLastSuccessfulResults that does not delete the object it replaces.
updateLastSuccessfulResultsNoDelete(w, aResults) ==
    IF /\ isSyncSuccessful(aResults)
       /\ \/ w.d.iLastSuccessfulResults = NULL
          \/ ResultLess(Deref(w.heap, w.d.iLastSuccessfulResults), aResults)
    THEN World(New(w.heap, aResults),
               [w.d EXCEPT !.iLastSuccessfulResults = NewAddr(w.heap)])
    ELSE w

\* SyncLogPrivate::updateLastSuccessfulResults
updateLastSuccessfulResults(w, aResults) ==
    IF /\ isSyncSuccessful(aResults)
       /\ \/ w.d.iLastSuccessfulResults = NULL
          \/ ResultLess(Deref(w.heap, w.d.iLastSuccessfulResults), aResults)
    THEN LET h1 == Delete(w.heap, w.d.iLastSuccessfulResults)
         IN  World(New(h1, aResults),
                   [w.d EXCEPT !.iLastSuccessfulResults = NewAddr(h1)])
    ELSE w

\* evictOldest with the size test off by one.
evictOldestLate(w) ==
    IF Len(w.d.iResults) > MAXLOGENTRIES
    THEN World(Delete(w.heap, Head(w.d.iResults)),
               [w.d EXCEPT !.iResults = Tail(@)])
    ELSE w

\* The first part of SyncLog::addResults: the oldest entry is taken off the
\* list and deleted when the list is full.
evictOldest(w) ==
    IF Len(w.d.iResults) >= MAXLOGENTRIES
    THEN World(Delete(w.heap, Head(w.d.iResults)),
               [w.d EXCEPT !.iResults = Tail(@)])
    ELSE w

\* SyncLog::addResults
addResults(w, aResults) ==
    LET w1 == evictOldest(w)
        w2 == World(New(w1.heap, aResults),
                    [w1.d EXCEPT !.iResults = Append(@, NewAddr(w1.heap))])
    IN  updateLastSuccessfulResults(w2, aResults)

\* SyncLog::SyncLog(const QString &)
SyncLog_fromName(h, aProfileName) ==
    World(h, [SyncLogPrivate_new EXCEPT !.iProfileName = aProfileName])

\* The child elements of aRoot with the tag aTag, in document order
\* (firstChildElement / nextSiblingElement).
ChildElements(aRoot, aTag) ==
    SelectSeq(aRoot.children, LAMBDA c : c.tag = aTag)

RECURSIVE addAll(_, _)
addAll(w, aNodes) ==
    IF aNodes = <<>> THEN w
    ELSE addAll(addResults(w, SyncResults_fromXml(Head(aNodes))), Tail(aNodes))

RECURSIVE appendAll(_, _)
appendAll(w, aNodes) ==
    IF aNodes = <<>> THEN w
    ELSE LET r == SyncResults_fromXml(Head(aNodes))
             w2 == World(New(w.heap, r),
                         [w.d EXCEPT !.iResults = Append(@, NewAddr(w.heap))])
         IN  appendAll(updateLastSuccessfulResults(w2, r), Tail(aNodes))

\* SyncLog_fromXml appending to the list itself instead of calling addResults.
SyncLog_fromXmlDirect(h, aRoot) ==
    appendAll(World(h, [SyncLogPrivate_new EXCEPT !.iProfileName = aRoot.name]),
              ChildElements(aRoot, TAG_SYNC_RESULTS))

\* SyncLog::SyncLog(const QDomElement &)
SyncLog_fromXml(h, aRoot) ==
    addAll(World(h, [SyncLogPrivate_new EXCEPT !.iProfileName = aRoot.name]),
           ChildElements(aRoot, TAG_SYNC_RESULTS))

RECURSIVE copyResults(_, _, _)
copyResults(w, h0, aPointers) ==
    IF aPointers = <<>> THEN w
    ELSE copyResults(World(New(w.heap, Deref(h0, Head(aPointers))),
                           [w.d EXCEPT !.iResults = Append(@, NewAddr(w.heap))]),
                     h0, Tail(aPointers))

\* A copy constructor that copies the pointers instead of the objects.
SyncLog_copyShallow(h, aSource) == World(h, aSource)

\* A copy constructor that leaves out the last successful result.
SyncLog_copyNoBest(h, aSource) ==
    copyResults(World(h, [SyncLogPrivate_new EXCEPT
                              !.iProfileName = aSource.iProfileName]),
                h, aSource.iResults)

\* A copy constructor that leaves out the list of results.
SyncLog_copyBestOnly(h, aSource) ==
    LET w0 == World(h, [SyncLogPrivate_new EXCEPT
                            !.iProfileName = aSource.iProfileName])
    IN  IF aSource.iLastSuccessfulResults # NULL
        THEN World(New(w0.heap, Deref(h, aSource.iLastSuccessfulResults)),
                   [w0.d EXCEPT !.iLastSuccessfulResults = NewAddr(w0.heap)])
        ELSE w0

\* SyncLogPrivate::SyncLogPrivate(const SyncLogPrivate &), which is all
\* SyncLog::SyncLog(const SyncLog &) does.
SyncLog_copy(h, aSource) ==
    LET w0 == World(h, [SyncLogPrivate_new EXCEPT
                            !.iProfileName = aSource.iProfileName])
        w1 == copyResults(w0, h, aSource.iResults)
    IN  IF aSource.iLastSuccessfulResults # NULL
        THEN World(New(w1.heap, Deref(h, aSource.iLastSuccessfulResults)),
                   [w1.d EXCEPT !.iLastSuccessfulResults = NewAddr(w1.heap)])
        ELSE w1

\* emitsLastSuccessful without the comparison with the first entry.
emitsLastSuccessfulAlways(h, d) == d.iLastSuccessfulResults # NULL

\* The test in SyncLog::toXml that decides whether the last successful
\* result gets an element of its own.
emitsLastSuccessful(h, d) ==
    /\ d.iLastSuccessfulResults # NULL
    /\ \/ d.iResults = <<>>
       \/ ResultLess(Deref(h, d.iLastSuccessfulResults),
                     Deref(h, Head(d.iResults)))

\* toXml with the element of the last successful result written last.
toXmlBestLast(h, d) ==
    [tag |-> TAG_SYNC_LOG,
     name |-> d.iProfileName,
     children |->
        [i \in 1..Len(d.iResults) |->
                SyncResults_toXml(Deref(h, d.iResults[i]))]
        \o (IF emitsLastSuccessful(h, d)
            THEN <<SyncResults_toXml(Deref(h, d.iLastSuccessfulResults))>>
            ELSE <<>>)]

\* SyncLog::toXml
toXml(h, d) ==
    [tag |-> TAG_SYNC_LOG,
     name |-> d.iProfileName,
     children |->
        (IF emitsLastSuccessful(h, d)
         THEN <<SyncResults_toXml(Deref(h, d.iLastSuccessfulResults))>>
         ELSE <<>>)
        \o [i \in 1..Len(d.iResults) |->
                SyncResults_toXml(Deref(h, d.iResults[i]))]]

\* setProfileName that starts from fresh private data.
setProfileNameFresh(d, aProfileName) ==
    [SyncLogPrivate_new EXCEPT !.iProfileName = aProfileName]

\* SyncLog::setProfileName
setProfileName(d, aProfileName) == [d EXCEPT !.iProfileName = aProfileName]

\* SyncLog::profileName
profileName(d) == d.iProfileName

\* lastResults returning the first entry instead of the last.
lastResultsFirst(d) ==
    IF d.iResults = <<>> THEN NULL ELSE d.iResults[1]

\* SyncLog::lastResults: a pointer to the last entry, null for an empty list.
lastResults(d) ==
    IF d.iResults = <<>> THEN NULL ELSE d.iResults[Len(d.iResults)]

\* SyncLog::allResults: the list of pointers.
allResults(d) == d.iResults

\* SyncLog::lastSuccessfulResults: the pointer, null when there is none.
lastSuccessfulResults(d) == d.iLastSuccessfulResults

RECURSIVE qDeleteAll(_, _)
qDeleteAll(h, aPointers) ==
    IF aPointers = <<>> THEN h
    ELSE qDeleteAll(Delete(h, Head(aPointers)), Tail(aPointers))

\* SyncLogPrivate::~SyncLogPrivate, which is all SyncLog::~SyncLog does:
\* the heap after the log's objects are deleted.
SyncLog_destroy(h, d) ==
    Delete(qDeleteAll(h, d.iResults), d.iLastSuccessfulResults)

---------------------------------------------------------------------------
(* What a caller can observe of a log *)

\* SyncLog::allResults, read through the pointers.
Retained(l) == [i \in 1..Len(logs[l].iResults) |-> Deref(heap, logs[l].iResults[i])]

Absent == [absent |-> TRUE]

\* SyncLog::lastSuccessfulResults, read through the pointer.
BestSuccessful(l) ==
    IF logs[l].iLastSuccessfulResults = NULL THEN Absent
    ELSE Deref(heap, logs[l].iLastSuccessfulResults)

Observable(l) ==
    [profileName |-> logs[l].iProfileName,
     retained |-> Retained(l),
     bestSuccessful |-> BestSuccessful(l)]


---------------------------------------------------------------------------
(* The recording client: constructs log "A" by name, records results, and  *)
(* writes the log to document "D1".  The round-trip client goes on: it     *)
(* also renames the log while recording, constructs log "B" from "D1" and  *)
(* writes "B" to document "D2".                                            *)

LogNames == {"A", "B"}

DocNames == {"D1", "D2"}

\* SyncLog::SyncLog(const QString &) for log "A", the first call of a client.
Construct(aNames, aStart) ==
    /\ \E n \in aNames :
          LET w == SyncLog_fromName(EmptyHeap, n)
          IN  /\ heap = w.heap
              /\ logs = [l \in LogNames |-> IF l = "A" THEN w.d ELSE NoLog]
    /\ recorded = [l \in LogNames |-> <<>>]
    /\ docs = [x \in DocNames |-> NoDoc]
    /\ pc = aStart
    /\ steps = 0
    /\ ret = NoValue

Init == Construct({"p"}, "recording")

\* A call of SyncLog::addResults on log l.
Call_addResults(l, r) ==
    /\ LET w == addResults(World(heap, logs[l]), r)
       IN  /\ heap' = w.heap
           /\ logs' = [logs EXCEPT ![l] = w.d]
    /\ recorded' = [recorded EXCEPT ![l] = Append(@, r)]

\* A call of SyncLog::setProfileName on log l.
Call_setProfileName(l, n) ==
    /\ logs' = [logs EXCEPT ![l] = setProfileName(@, n)]
    /\ UNCHANGED <<heap, recorded>>

AddResults(r) ==
    /\ pc = "recording"
    /\ Len(recorded["A"]) < MaxAdds
    /\ Call_addResults("A", r)
    /\ UNCHANGED <<docs, pc, steps, ret>>

SetProfileName(n) ==
    /\ pc = "recording"
    /\ Call_setProfileName("A", n)
    /\ UNCHANGED <<docs, pc, steps, ret>>

\* A call of SyncLog::toXml on log "A".
Serialize ==
    /\ pc = "recording"
    /\ docs' = [docs EXCEPT !["D1"] = toXml(heap, logs["A"])]
    /\ pc' = "serialized"
    /\ UNCHANGED <<heap, logs, recorded, steps, ret>>

\* The sync results elements of document "D1", deserialized.
ParsedChildren ==
    LET c == ChildElements(docs["D1"], TAG_SYNC_RESULTS)
    IN  [i \in 1..Len(c) |-> SyncResults_fromXml(c[i])]

\* SyncLog::SyncLog(const QDomElement &) constructs log "B" from "D1".
Hydrate ==
    /\ pc = "serialized"
    /\ LET w == SyncLog_fromXml(heap, docs["D1"])
       IN  /\ heap' = w.heap
           /\ logs' = [logs EXCEPT !["B"] = w.d]
    /\ recorded' = [recorded EXCEPT !["B"] = ParsedChildren]
    /\ pc' = "hydrated"
    /\ UNCHANGED <<docs, steps, ret>>

\* A call of SyncLog::toXml on log "B".
Reserialize ==
    /\ pc = "hydrated"
    /\ docs' = [docs EXCEPT !["D2"] = toXml(heap, logs["B"])]
    /\ pc' = "reserialized"
    /\ UNCHANGED <<heap, logs, recorded, steps, ret>>

Next ==
    \/ \E r \in Inputs : AddResults(r)
    \/ Serialize

Spec == Init /\ [][Next]_vars

InitRoundTrip == Construct(ProfileNames, "recording")

NextRoundTrip ==
    \/ \E r \in Inputs : AddResults(r)
    \/ \E n \in ProfileNames : SetProfileName(n)
    \/ Serialize
    \/ Hydrate
    \/ Reserialize

SpecRoundTrip == InitRoundTrip /\ [][NextRoundTrip]_vars

---------------------------------------------------------------------------
(* The copying client: constructs log "A", records results until the log   *)
(* is at most full, copies "A" to log "B", and then records results in and *)
(* renames either log.                                                     *)

Fill(r) ==
    /\ pc = "filling"
    /\ Len(recorded["A"]) < MAXLOGENTRIES
    /\ Call_addResults("A", r)
    /\ UNCHANGED <<docs, pc, steps, ret>>

\* SyncLog::SyncLog(const SyncLog &) constructs log "B" from log "A".
Copy ==
    /\ pc = "filling"
    /\ LET w == SyncLog_copy(heap, logs["A"])
       IN  /\ heap' = w.heap
           /\ logs' = [logs EXCEPT !["B"] = w.d]
    /\ pc' = "copied"
    /\ UNCHANGED <<recorded, docs, steps, ret>>

AddResultsAfterCopy(l, r) ==
    /\ pc = "copied"
    /\ steps < MaxAfterCopy
    /\ Call_addResults(l, r)
    /\ steps' = steps + 1
    /\ UNCHANGED <<docs, pc, ret>>

SetProfileNameAfterCopy(l, n) ==
    /\ pc = "copied"
    /\ steps < MaxAfterCopy
    /\ Call_setProfileName(l, n)
    /\ steps' = steps + 1
    /\ UNCHANGED <<docs, pc, ret>>

InitCopy == Construct({"p"}, "filling")

NextCopy ==
    \/ \E r \in CopyInputs : Fill(r)
    \/ Copy
    \/ \E l \in LogNames, r \in CopyInputs : AddResultsAfterCopy(l, r)
    \/ \E l \in LogNames, n \in ProfileNames : SetProfileNameAfterCopy(l, n)

SpecCopy == InitCopy /\ [][NextCopy]_vars

---------------------------------------------------------------------------
(* The replaying client: reads a document "D1", constructs log "B" from    *)
(* it, then constructs log "A" from the document's profile name and        *)
(* records the document's sync results in "A" one by one.                  *)

Documents ==
    { [tag |-> TAG_SYNC_LOG, name |-> n, children |-> c] :
        n \in ProfileNames,
        c \in UNION { [1..k -> DocNodes] : k \in 0..MaxChildren } }

\* No log exists yet; document "D1" is at hand, as after Serialize.
InitReplay ==
    /\ heap = EmptyHeap
    /\ logs = [l \in LogNames |-> NoLog]
    /\ recorded = [l \in LogNames |-> <<>>]
    /\ \E d \in Documents : docs = [x \in DocNames |-> IF x = "D1" THEN d ELSE NoDoc]
    /\ pc = "serialized"
    /\ steps = 0
    /\ ret = NoValue

\* SyncLog::SyncLog(const QString &) constructs log "A".
ReplayConstruct ==
    /\ pc = "hydrated"
    /\ logs["A"] = NoLog
    /\ LET w == SyncLog_fromName(heap, docs["D1"].name)
       IN  /\ heap' = w.heap
           /\ logs' = [logs EXCEPT !["A"] = w.d]
    /\ pc' = "replaying"
    /\ UNCHANGED <<recorded, docs, steps, ret>>

ReplayAddResults ==
    /\ pc = "replaying"
    /\ steps < Len(ParsedChildren)
    /\ Call_addResults("A", ParsedChildren[steps + 1])
    /\ steps' = steps + 1
    /\ UNCHANGED <<docs, pc, ret>>

NextReplay ==
    \/ Hydrate
    \/ ReplayConstruct
    \/ ReplayAddResults

SpecReplay == InitReplay /\ [][NextReplay]_vars

---------------------------------------------------------------------------
(* The inspecting client: constructs log "A", records results in it and    *)
(* renames it, and between these calls reads it through the accessors and  *)
(* toXml, keeping what the last such call returned until it changes the    *)
(* log again.  It ends by constructing log "B" as a copy of "A" or from    *)
(* the element toXml returned.                                             *)

InspectAddResults(r) ==
    /\ pc = "inspecting"
    /\ Len(recorded["A"]) < MaxAdds
    /\ Call_addResults("A", r)
    /\ ret' = NoValue
    /\ UNCHANGED <<docs, pc, steps>>

InspectSetProfileName(n) ==
    /\ pc = "inspecting"
    /\ Call_setProfileName("A", n)
    /\ ret' = NoValue
    /\ UNCHANGED <<docs, pc, steps>>

\* A call of a const member function of log "A": nothing is assigned but
\* the value the client receives.
Returns(aCall, aValue) ==
    /\ pc = "inspecting"
    /\ ret' = [call |-> aCall, value |-> aValue]
    /\ UNCHANGED <<heap, logs, recorded, docs, pc, steps>>

CallProfileName == Returns("profileName", profileName(logs["A"]))

CallLastResults == Returns("lastResults", lastResults(logs["A"]))

CallAllResults == Returns("allResults", allResults(logs["A"]))

CallLastSuccessfulResults ==
    Returns("lastSuccessfulResults", lastSuccessfulResults(logs["A"]))

CallToXml == Returns("toXml", toXml(heap, logs["A"]))

\* SyncLog::SyncLog(const SyncLog &) constructs log "B" from log "A".
InspectCopy ==
    /\ pc = "inspecting"
    /\ LET w == SyncLog_copy(heap, logs["A"])
       IN  /\ heap' = w.heap
           /\ logs' = [logs EXCEPT !["B"] = w.d]
    /\ pc' = "copyMade"
    /\ ret' = NoValue
    /\ UNCHANGED <<recorded, docs, steps>>

\* SyncLog::SyncLog(const QDomElement &) constructs log "B" from the element
\* that toXml returned.
InspectHydrate ==
    /\ pc = "inspecting"
    /\ ret # NoValue
    /\ ret.call = "toXml"
    /\ LET w == SyncLog_fromXml(heap, ret.value)
           c == ChildElements(ret.value, TAG_SYNC_RESULTS)
       IN  /\ heap' = w.heap
           /\ logs' = [logs EXCEPT !["B"] = w.d]
           /\ recorded' = [recorded EXCEPT !["B"] =
                               [i \in 1..Len(c) |-> SyncResults_fromXml(c[i])]]
    /\ pc' = "elementRead"
    /\ ret' = NoValue
    /\ UNCHANGED <<docs, steps>>

InitInspect == Construct({"p"}, "inspecting")

NextInspect ==
    \/ \E r \in InspectInputs : InspectAddResults(r)
    \/ \E n \in ProfileNames : InspectSetProfileName(n)
    \/ CallProfileName
    \/ CallLastResults
    \/ CallAllResults
    \/ CallLastSuccessfulResults
    \/ CallToXml
    \/ InspectCopy
    \/ InspectHydrate

SpecInspect == InitInspect /\ [][NextInspect]_vars

---------------------------------------------------------------------------
(* The owning client: constructs log "A", records results in it, copies    *)
(* it to log "B", records results in either log, and destroys the logs.    *)

OwnFill(r) ==
    /\ pc = "owning"
    /\ logs["A"] # NoLog
    /\ Len(recorded["A"]) < MaxAdds
    /\ Call_addResults("A", r)
    /\ UNCHANGED <<docs, pc, steps, ret>>

OwnCopy ==
    /\ pc = "owning"
    /\ logs["A"] # NoLog
    /\ LET w == SyncLog_copy(heap, logs["A"])
       IN  /\ heap' = w.heap
           /\ logs' = [logs EXCEPT !["B"] = w.d]
    /\ pc' = "ownCopied"
    /\ UNCHANGED <<recorded, docs, steps, ret>>

OwnAddResults(l, r) ==
    /\ pc = "ownCopied"
    /\ logs[l] # NoLog
    /\ steps < MaxAfterCopy
    /\ Call_addResults(l, r)
    /\ steps' = steps + 1
    /\ UNCHANGED <<docs, pc, ret>>

\* SyncLog::~SyncLog destroys log l.
Destroy(l) ==
    /\ pc \in {"owning", "ownCopied"}
    /\ logs[l] # NoLog
    /\ heap' = SyncLog_destroy(heap, logs[l])
    /\ logs' = [logs EXCEPT ![l] = NoLog]
    /\ UNCHANGED <<recorded, docs, pc, steps, ret>>

InitOwn == Construct({"p"}, "owning")

NextOwn ==
    \/ \E r \in OwnInputs : OwnFill(r)
    \/ OwnCopy
    \/ \E l \in LogNames, r \in OwnInputs : OwnAddResults(l, r)
    \/ \E l \in LogNames : Destroy(l)

SpecOwn == InitOwn /\ [][NextOwn]_vars

---------------------------------------------------------------------------
(* Properties *)

Min(a, b) == IF a < b THEN a ELSE b

\* The success predicate as the specification words it.
SuccessPredicate(r) ==
    /\ r.majorCode = "SYNC_RESULT_SUCCESS"
    /\ r.minorCode = "NO_ERROR"
    /\ r.syncTime # 0

\* The successful results of a history that no successful result of it
\* exceeds; Absent when the history has no successful result.
MaxSuccessfulOf(aHistory) ==
    LET S == { aHistory[i] : i \in { j \in 1..Len(aHistory) : SuccessPredicate(aHistory[j]) } }
    IN  IF S = {} THEN Absent
        ELSE CHOOSE s \in S : \A t \in S : ~ResultLess(s, t)

\* The result children of document x are the last successful result
\* followed by one element per retained entry of log l.
HasSeparateChild(x, l) == Len(docs[x].children) = Len(Retained(l)) + 1

\* C1: after N addResults calls on a log constructed empty the log retains
\* min(N, 5) results, and they are the min(N, 5) most recently recorded
\* results in recording order, whatever their content.
C1_CapacityAndRecency ==
    LET n == Len(recorded["A"])
        k == Min(n, 5)
    IN  /\ Len(Retained("A")) = k
        /\ Retained("A") = SubSeq(recorded["A"], n - k + 1, n)

C1_Witness ==
    /\ Len(recorded["A"]) = 6
    /\ Len(Retained("A")) = 5
    /\ Retained("A") = Tail(recorded["A"])
    /\ \E i \in 1..5 : ~SuccessPredicate(Retained("A")[i])
    /\ recorded["A"][1] # recorded["A"][6]

\* C2: the last successful result equals the maximum, by the order of
\* results, of the successful results recorded so far, and is absent when
\* none was successful, also when that maximum is no longer retained.
C2_BestIsMaximum == BestSuccessful("A") = MaxSuccessfulOf(recorded["A"])

C2_Witness ==
    /\ BestSuccessful("A") # Absent
    /\ \A i \in 1..Len(Retained("A")) : Retained("A")[i] # BestSuccessful("A")
    /\ \E i \in 1..Len(Retained("A")) : SuccessPredicate(Retained("A")[i])

\* C3: a call addResults(r) replaces the last successful result by r when r
\* satisfies the success predicate and the stored one is absent or less
\* than r, and leaves it unchanged in every other case; r is appended to
\* the retained results in both cases.
C3_ReplaceIff ==
    [][ recorded'["A"] # recorded["A"] =>
          LET r == recorded'["A"][Len(recorded'["A"])]
          IN  /\ IF /\ SuccessPredicate(r)
                    /\ \/ BestSuccessful("A") = Absent
                       \/ ResultLess(BestSuccessful("A"), r)
                 THEN BestSuccessful("A")' = r /\ BestSuccessful("A")' # BestSuccessful("A")
                 ELSE BestSuccessful("A")' = BestSuccessful("A")
              /\ Retained("A")'[Len(Retained("A")')] = r ]_vars

C3_Witness ==
    /\ Len(recorded["A"]) >= 3
    /\ LET r == recorded["A"][Len(recorded["A"])]
       IN  /\ SuccessPredicate(r)
           /\ BestSuccessful("A") # r
           /\ Retained("A")[Len(Retained("A"))] = r
    /\ \E i \in 1..Len(recorded["A"]) :
          /\ recorded["A"][i].syncTime = 0
          /\ recorded["A"][i].majorCode = "SYNC_RESULT_SUCCESS"
          /\ recorded["A"][i].minorCode = "NO_ERROR"

\* C4: when the log has a last successful result, the document toXml
\* produces has a child element equal to it.
C4_BestNeverLost ==
    (pc = "serialized" /\ BestSuccessful("A") # Absent) =>
        \E i \in 1..Len(docs["D1"].children) :
            docs["D1"].children[i] = SyncResults_toXml(BestSuccessful("A"))

\* C5: the log constructed from the document that toXml produced has the
\* profile name, the retained results and the last successful result of the
\* log that was written.
C5_RoundTrip == pc = "hydrated" => Observable("B") = Observable("A")

\* C6: toXml emits a separate element for the last successful result
\* exactly when the log has one and either retains nothing or the last
\* successful result is less than the first retained entry.
C6_SeparateChildIff ==
    pc = "serialized" =>
        /\ Len(docs["D1"].children) \in { Len(Retained("A")), Len(Retained("A")) + 1 }
        /\ HasSeparateChild("D1", "A") <=>
              /\ BestSuccessful("A") # Absent
              /\ \/ Retained("A") = <<>>
                 \/ ResultLess(BestSuccessful("A"), Retained("A")[1])
        /\ HasSeparateChild("D1", "A") =>
              docs["D1"].children[1] = SyncResults_toXml(BestSuccessful("A"))

C6_Witness ==
    /\ pc = "serialized"
    /\ HasSeparateChild("D1", "A")
    /\ Len(Retained("A")) = 5
    /\ docs["D1"].children[1] = SyncResults_toXml(BestSuccessful("A"))

\* C7: writing the log constructed from a document gives that document
\* again: the same profile name and the same child elements.
C7_Idempotent == pc = "reserialized" => docs["D2"] = docs["D1"]

\* C8: after one successful result and then five unsuccessful ones the log
\* retains the five unsuccessful results, the last successful result is the
\* first one recorded, and the document has an element for it followed by
\* the five retained entries.
C8_Scenario ==
    ( /\ pc = "serialized"
      /\ Len(recorded["A"]) = 6
      /\ SuccessPredicate(recorded["A"][1])
      /\ \A i \in 2..6 : ~SuccessPredicate(recorded["A"][i]) )
    => /\ Retained("A") = Tail(recorded["A"])
       /\ BestSuccessful("A") = recorded["A"][1]
       /\ docs["D1"].children =
             <<SyncResults_toXml(recorded["A"][1])>>
             \o [i \in 1..5 |-> SyncResults_toXml(recorded["A"][i + 1])]

\* C9: after B = copy of A, a call on one of the two logs leaves the profile
\* name, the retained results and the last successful result of the other
\* one unchanged.
C9_CopyIsolation ==
    [][ pc = "copied" =>
          /\ logs'["A"] = logs["A"] => Observable("A")' = Observable("A")
          /\ logs'["B"] = logs["B"] => Observable("B")' = Observable("B") ]_vars

C9_Witness ==
    /\ pc = "copied"
    /\ steps = 2
    /\ Len(recorded["A"]) = 5
    /\ Len(recorded["B"]) = 2
    /\ BestSuccessful("A") # BestSuccessful("B")
    /\ BestSuccessful("A") # Absent
    /\ Retained("A") = recorded["A"]
    /\ Retained("B") = SubSeq(recorded["A"], 3, 5) \o recorded["B"]
    /\ logs["A"].iProfileName = "p"

\* C10: the log constructed from a document with profile name p and result
\* children c1..cn is the log constructed from p after addResults(c1) ..
\* addResults(cn); with no result children it retains nothing and has no
\* last successful result.
C10_HydrationIsReplay ==
    /\ (pc = "replaying" /\ steps = Len(ParsedChildren)) =>
          Observable("A") = Observable("B")
    /\ (pc \in {"hydrated", "replaying"} /\ ParsedChildren = <<>>) =>
          /\ Retained("B") = <<>>
          /\ BestSuccessful("B") = Absent
          /\ logs["B"].iProfileName = docs["D1"].name

C10_Witness ==
    /\ pc = "replaying"
    /\ steps = Len(ParsedChildren)
    /\ steps = 6
    /\ Len(Retained("B")) = 5
    /\ BestSuccessful("B") # Absent
    /\ \A i \in 1..5 : Retained("B")[i] # BestSuccessful("B")
    /\ Observable("A") = Observable("B")

\* The value of the last call, when it was a call of the accessor aCall.
Returned(aCall) == ret # NoValue /\ ret.call = aCall

\* C11: lastResults returns none for a log that retains nothing, and
\* otherwise the last retained entry, which is the result of the latest
\* addResults call whatever its sync time and codes.
C11_LastResults ==
    Returned("lastResults") =>
        /\ Retained("A") = <<>> => ret.value = NULL
        /\ Retained("A") # <<>> =>
              /\ ret.value # NULL
              /\ Deref(heap, ret.value) = Retained("A")[Len(Retained("A"))]
        /\ recorded["A"] # <<>> =>
              Deref(heap, ret.value) = recorded["A"][Len(recorded["A"])]

C11_Witness ==
    /\ Returned("lastResults")
    /\ Len(recorded["A"]) = 6
    /\ Deref(heap, ret.value).syncTime = 0
    /\ Deref(heap, ret.value) = recorded["A"][6]
    /\ Retained("A")[1] # Retained("A")[5]
    /\ BestSuccessful("A") # Absent

\* The logs that exist.
LiveLogs == { l \in LogNames : logs[l] # NoLog }

\* C12: the last successful result of a log, when it has one, satisfies the
\* success predicate, in a log constructed by name, from an element or as a
\* copy.
C12_BestIsSuccessful ==
    \A l \in LiveLogs :
        BestSuccessful(l) # Absent => SuccessPredicate(BestSuccessful(l))

C12_Witness ==
    /\ pc = "elementRead"
    /\ BestSuccessful("B") # Absent
    /\ SuccessPredicate(BestSuccessful("B"))
    /\ \E i \in 1..Len(Retained("B")) :
          /\ ~SuccessPredicate(Retained("B")[i])
          /\ ResultLess(BestSuccessful("B"), Retained("B")[i])
    /\ \E i \in 1..Len(Retained("B")) : Retained("B")[i].syncTime = 0

\* C13: a call that is no addResults call on a log (setProfileName, an
\* accessor, toXml, being copied) leaves the log's retained results and last
\* successful result unchanged, and setProfileName changes the profile name
\* only.
C13_OnlyAddResultsChanges ==
    [][ /\ \A l \in LiveLogs :
              recorded'[l] = recorded[l] =>
                  /\ Retained(l)' = Retained(l)
                  /\ BestSuccessful(l)' = BestSuccessful(l)
        /\ logs'["A"].iProfileName # logs["A"].iProfileName =>
              /\ heap' = heap
              /\ logs' = [logs EXCEPT !["A"].iProfileName = logs'["A"].iProfileName]
      ]_vars

C13_Witness ==
    /\ Returned("toXml")
    /\ logs["A"].iProfileName = "q"
    /\ ret.value.name = "q"
    /\ Len(recorded["A"]) = 6
    /\ Retained("A") = Tail(recorded["A"])
    /\ BestSuccessful("A") # Absent

\* C14: the retained results are in ascending order of the results' order:
\* no retained entry is less than an entry before it.
C14_RetainedSorted ==
    \A i, j \in 1..Len(Retained("A")) :
        i < j => ~ResultLess(Retained("A")[j], Retained("A")[i])

\* C15: once a log has a last successful result it keeps having one, an
\* addResults call never replaces it by a lesser one, and no successful
\* result ever recorded exceeds it.
C15_BestNeverRegresses ==
    /\ [][ BestSuccessful("A") # Absent =>
              /\ BestSuccessful("A")' # Absent
              /\ ~ResultLess(BestSuccessful("A")', BestSuccessful("A")) ]_vars
    /\ [](\A i \in 1..Len(recorded["A"]) :
              SuccessPredicate(recorded["A"][i]) =>
                  /\ BestSuccessful("A") # Absent
                  /\ ~ResultLess(BestSuccessful("A"), recorded["A"][i]))

C15_Witness ==
    /\ Len(recorded["A"]) = 6
    /\ SuccessPredicate(recorded["A"][1])
    /\ BestSuccessful("A") = recorded["A"][1]
    /\ \A i \in 1..Len(Retained("A")) : Retained("A")[i] # BestSuccessful("A")
    /\ \E i \in 1..Len(Retained("A")) :
          /\ SuccessPredicate(Retained("A")[i])
          /\ ResultLess(Retained("A")[i], BestSuccessful("A"))

\* C16: when some retained entry equals the last successful result, the
\* document has no separate element for the last successful result.
C16_NoDuplicate ==
    ( /\ pc = "serialized"
      /\ \E i \in 1..Len(Retained("A")) : Retained("A")[i] = BestSuccessful("A") )
    => ~HasSeparateChild("D1", "A")

\* C17: the children of the document are the element of the last successful
\* result, when toXml emits it, followed by one element per retained entry
\* in the retained order, and they are never more than six.
C17_ChildrenOrder ==
    pc = "serialized" =>
        LET R == [i \in 1..Len(Retained("A")) |-> SyncResults_toXml(Retained("A")[i])]
            c == docs["D1"].children
        IN  /\ Len(c) <= 6
            /\ \/ c = R
               \/ /\ BestSuccessful("A") # Absent
                  /\ c = <<SyncResults_toXml(BestSuccessful("A"))>> \o R

C17_Witness ==
    /\ pc = "serialized"
    /\ Len(docs["D1"].children) = 6
    /\ BestSuccessful("A") # Absent
    /\ docs["D1"].children[1] = SyncResults_toXml(BestSuccessful("A"))
    /\ Retained("A")[1] # Retained("A")[5]
    /\ docs["D1"].children[2] = SyncResults_toXml(Retained("A")[1])
    /\ docs["D1"].children[6] = SyncResults_toXml(Retained("A")[5])

\* C18: the log the copy constructor makes has, when it is made, the profile
\* name of the source, retained results equal to the source's entry by entry
\* in the same order, and a last successful result exactly when the source
\* has one, equal to it.
C18_CopyEqualsSource ==
    pc = "copyMade" =>
        /\ logs["B"].iProfileName = logs["A"].iProfileName
        /\ Len(Retained("B")) = Len(Retained("A"))
        /\ \A i \in 1..Len(Retained("A")) : Retained("B")[i] = Retained("A")[i]
        /\ BestSuccessful("B") = Absent <=> BestSuccessful("A") = Absent
        /\ BestSuccessful("B") = BestSuccessful("A")

C18_Witness ==
    /\ pc = "copyMade"
    /\ logs["B"].iProfileName = "q"
    /\ Len(Retained("B")) = 5
    /\ Retained("B")[1] # Retained("B")[5]
    /\ BestSuccessful("B") # Absent
    /\ \A i \in 1..5 : Retained("B")[i] # BestSuccessful("B")
    /\ logs["B"].iResults # logs["A"].iResults
    /\ Observable("B") = Observable("A")

\* The pointers a log holds: its retained entries and, when it has one, its
\* last successful result.
SlotsOf(l) ==
    IF logs[l] = NoLog THEN <<>>
    ELSE logs[l].iResults
         \o (IF logs[l].iLastSuccessfulResults = NULL THEN <<>>
             ELSE <<logs[l].iLastSuccessfulResults>>)

AllSlots == SlotsOf("A") \o SlotsOf("B")

\* C19: no object is held in two slots, of one log or of two; the objects
\* alive are exactly the objects the logs hold, so every evicted or replaced
\* object and every object of a destroyed log has been deleted; and no
\* object is deleted twice.
C19_SingleOwner ==
    /\ \A i, j \in 1..Len(AllSlots) : i # j => AllSlots[i] # AllSlots[j]
    /\ DOMAIN heap = { AllSlots[i] : i \in 1..Len(AllSlots) }
    /\ NULL \notin DOMAIN heap

C19_Witness ==
    /\ pc = "ownCopied"
    /\ logs["A"] = NoLog
    /\ logs["B"] = NoLog
    /\ heap = EmptyHeap
    /\ Len(recorded["A"]) = 6
    /\ Len(recorded["B"]) = 2
    /\ ResultLess(recorded["A"][1], recorded["A"][2])
    /\ ResultLess(recorded["A"][6], recorded["B"][2])

\* C20: a log that retains nothing has no last successful result, whichever
\* constructor made it and whatever was recorded in it, so toXml of a log
\* that retains nothing gives a document without children.
C20_EmptyHasNoBest ==
    /\ \A l \in LiveLogs : Retained(l) = <<>> => BestSuccessful(l) = Absent
    /\ (Returned("toXml") /\ Retained("A") = <<>>) => ret.value.children = <<>>

C20_Witness ==
    /\ pc = "elementRead"
    /\ logs["B"].iProfileName = "q"
    /\ Retained("B") = <<>>
    /\ BestSuccessful("B") = Absent
    /\ Retained("A") = <<>>

===========================================================================
